---- MODULE Spec2Model ----
(***************************************************************************)
(* Model of Data_process.ipynb: the deepfake-detection notebook.           *)
(*                                                                         *)
(* The notebook's cells run top to bottom.  The state is the notebook's    *)
(* global namespace (sequences, labels, X_seq, y_seq, ...), the position   *)
(* of the run (pc) and the loop variables of the dataset-assembly cell.    *)
(*                                                                         *)
(* A video is described by the folder it lies in and its frame count; a    *)
(* face image by the video and the frame it was cropped from; a feature    *)
(* vector by the face it was computed from.  What the      *)
(* pretrained networks compute is not modelled: whether a frame yields a   *)
(* face is an input of the video.                                          *)
(***************************************************************************)
EXTENDS Integers, Sequences, FiniteSets, TLC

VARIABLES
    pc,             \* the cell (or loop head) the run is at
    label,          \* outer loop variable of enumerate(classes)
    idx,            \* number of files of video_files already iterated
    total_frames,   \* total_frames of the last extract_faces_from_video call
    seeks,          \* positions passed to cap.set by that call, in order
    faces,          \* faces collected by that call
    sequences,      \* list of per-video feature arrays
    labels,         \* list of class indices
    X_seq,          \* Bound(np.array(sequences)), or Unset
    y_seq,          \* Bound(to_categorical(labels)), or Unset
    split,          \* Bound(sizes of the train/test split), or Unset
    predict_calls,  \* number of feature_extractor.predict invocations so far
    log             \* stages of the operations performed so far, in order,
                    \* consecutive operations of one stage written once

vars == <<pc, label, idx, total_frames, seeks, faces, sequences,
          labels, X_seq, y_seq, split, predict_calls, log>>

-----------------------------------------------------------------------------
(* Bounds of the model *)

\* most videos in one class folder
MaxVideos == 2

\* largest frame count of a video in the pipeline specification
MaxFrames == 5

\* largest frame count in the frame-sampling specification
MaxTotalFrames == 40

-----------------------------------------------------------------------------
(* Program constants *)

FRAMES_PER_VIDEO == 5

FEATURE_DIM == 1280

NUM_OUTPUTS == 2

\* classes = ['real', 'fake']: the label of a folder is its index in the list
classes_Swapped == <<"fake", "real">>

classes == <<"real", "fake">>

\* a name of the notebook that is not bound yet, and one bound to v
Unset == <<>>

Bound(v) == <<v>>

\* the frame counts a video may report: none (an unreadable file), a single
\* frame (fewer than are sampled), and at least as many as are sampled
FrameCounts == {0, 1, MaxFrames}

-----------------------------------------------------------------------------
(* Pure functions *)

\* np.linspace(start, stop, num, dtype=int): num >= 2 points from start to
\* stop inclusive, computed as start + k*(stop-start)/(num-1) and floored.
LinspaceInt_EndpointOff(start, stop, num) ==
    [k \in 1..num |-> start + ((k - 1) * (stop - start + 1)) \div num]

LinspaceInt(start, stop, num) ==
    [k \in 1..num |-> start + ((k - 1) * (stop - start)) \div (num - 1)]

\* the set of values of a sequence
Range(s) == {s[i] : i \in 1..Len(s)}

\* the frame positions extract_faces_from_video seeks for a video
SamplePositions(total) == LinspaceInt(0, total - 1, FRAMES_PER_VIDEO)

\* the face cropped from a frame of a video
Face(video, frame) == [video |-> video, frame |-> frame]

RECURSIVE CollectFaces(_, _, _, _)
\* the body of the for loop of extract_faces_from_video from position k on:
\* a frame appends a face when the read succeeds, MTCNN detects a face and
\* the crop is not empty (the frames in faceFrames); otherwise nothing.
CollectFaces(video, positions, faceFrames, k) ==
    IF k > Len(positions) THEN <<>>
    ELSE LET rest == CollectFaces(video, positions, faceFrames, k + 1)
         IN IF positions[k] \in faceFrames
            THEN <<Face(video, positions[k])>> \o rest
            ELSE rest

extract_faces_from_video(video, faceFrames) ==
    CollectFaces(video, SamplePositions(video.total), faceFrames, 1)

\* if len(faces) < FRAMES_PER_VIDEO: continue
IsIncomplete_OffByOne(fs) == Len(fs) < FRAMES_PER_VIDEO - 1

IsIncomplete(fs) == Len(fs) < FRAMES_PER_VIDEO

\* feature_extractor.predict(...).squeeze() of one face
Predict(face) == [face |-> face, dim |-> FEATURE_DIM]

\* the loop over faces that builds video_features
VideoFeatures_DropLast(fs) == [k \in 1..(Len(fs) - 1) |-> Predict(fs[k])]

VideoFeatures(fs) == [k \in 1..Len(fs) |-> Predict(fs[k])]

\* largest element of a non-empty sequence of naturals
MaxOf(s) == CHOOSE m \in Range(s) : \A x \in Range(s) : x <= m

\* keras to_categorical(y) with num_classes=None: num_classes = max(y) + 1,
\* row i has a 1 in column y[i] (columns counted from 0) and 0 elsewhere.
to_categorical(y) ==
    LET num_classes == MaxOf(y) + 1
    IN [i \in 1..Len(y) |->
            [j \in 1..num_classes |-> IF j - 1 = y[i] THEN 1 ELSE 0]]

\* appends an operation of a stage to the log
LogOp(l, stage) ==
    IF l # <<>> /\ l[Len(l)] = stage THEN l ELSE Append(l, stage)

\* train_test_split(..., stratify=y, test_size=0.2): the sizes, ok = FALSE
\* when sklearn raises (empty train set, a class with one member, fewer
\* train or test samples than classes).
train_test_split(y) ==
    LET n       == Len(y)
        n_test  == (n + 4) \div 5
        n_train == n - n_test
        rows    == Range(y)
        count(r) == Cardinality({i \in 1..n : y[i] = r})
    IN IF \/ n_train = 0
          \/ \E r \in rows : count(r) < 2
          \/ n_train < Cardinality(rows)
          \/ n_test < Cardinality(rows)
       THEN [ok |-> FALSE, n_train |-> 0, n_test |-> 0]
       ELSE [ok |-> TRUE, n_train |-> n_train, n_test |-> n_test]

-----------------------------------------------------------------------------
(* The notebook run *)

Init ==
    /\ pc = "cell_unzip"
    /\ label = 0
    /\ idx = 0
    /\ total_frames = 0
    /\ seeks = <<>>
    /\ faces = <<>>
    /\ sequences = <<>>
    /\ labels = <<>>
    /\ X_seq = Unset
    /\ y_seq = Unset
    /\ split = Unset
    /\ predict_calls = 0
    /\ log = <<>>

\* cell 746a4917: extract the archive
Unzip ==
    /\ pc = "cell_unzip"
    /\ pc' = "cell_detector"
    /\ log' = LogOp(log, 1)
    /\ UNCHANGED <<label, idx, total_frames, seeks, faces, sequences,
                   labels, X_seq, y_seq, split, predict_calls>>

\* cell 3f76c59e: create the detector, define extract_faces_from_video
DefineSampler ==
    /\ pc = "cell_detector"
    /\ pc' = "cell_extractor"
    /\ UNCHANGED <<label, idx, total_frames, seeks, faces, sequences,
                   labels, X_seq, y_seq, split, predict_calls, log>>

\* cell 916551ea: build the feature extractor
BuildFeatureExtractor ==
    /\ pc = "cell_extractor"
    /\ pc' = "cell_loop"
    /\ UNCHANGED <<label, idx, total_frames, seeks, faces, sequences,
                   labels, X_seq, y_seq, split, predict_calls, log>>

\* cell ca94909c, before the loops
StartLoop ==
    /\ pc = "cell_loop"
    /\ sequences' = <<>>
    /\ labels' = <<>>
    /\ label' = 0
    /\ pc' = "for_label"
    /\ UNCHANGED <<idx, total_frames, seeks, faces, X_seq, y_seq,
                   split, predict_calls, log>>

\* for label, folder_name in enumerate(classes): list the folder
ForLabel ==
    /\ pc = "for_label"
    /\ label < Len(classes)
    /\ idx' = 0
    /\ pc' = "for_video"
    /\ UNCHANGED <<label, total_frames, seeks, faces, sequences, labels,
                   X_seq, y_seq, split, predict_calls, log>>

\* for video_file in video_files: one iteration of the inner loop.  The
\* listing of the folder is an input: it has a next file or it is exhausted.
ProcessVideo ==
    /\ pc = "for_video"
    /\ idx < MaxVideos
    /\ \E total \in FrameCounts :
         \E faceFrames \in SUBSET Range(SamplePositions(total)) :
           LET video == [folder |-> classes[label + 1], total |-> total]
               fs == extract_faces_from_video(video, faceFrames)
           IN /\ total_frames' = total
              /\ seeks' = SamplePositions(total)
              /\ faces' = fs
              /\ IF IsIncomplete(fs)
                 THEN /\ log' = LogOp(log, 2)
                      /\ UNCHANGED <<sequences, labels, predict_calls>>
                 ELSE /\ sequences' = Append(sequences, VideoFeatures(fs))
                      /\ labels' = Append(labels, label)
                      /\ predict_calls' = predict_calls + Len(fs)
                      /\ log' = LogOp(LogOp(log, 2), 3)
    /\ idx' = idx + 1
    /\ UNCHANGED <<pc, label, X_seq, y_seq, split>>

\* the inner loop is exhausted: next class
ForVideoEnd_ArraysInsideLoop ==
    /\ pc = "for_video"
    /\ label' = label + 1
    /\ pc' = "for_label"
    /\ X_seq' = Bound(sequences)
    /\ log' = LogOp(log, 4)
    /\ UNCHANGED <<idx, total_frames, seeks, faces, sequences,
                   labels, y_seq, split, predict_calls>>

ForVideoEnd ==
    /\ pc = "for_video"
    /\ label' = label + 1
    /\ pc' = "for_label"
    /\ UNCHANGED <<idx, total_frames, seeks, faces, sequences,
                   labels, X_seq, y_seq, split, predict_calls, log>>

\* the outer loop is exhausted
ForLabelEnd ==
    /\ pc = "for_label"
    /\ label >= Len(classes)
    /\ pc' = "cell_arrays"
    /\ UNCHANGED <<label, idx, total_frames, seeks, faces, sequences,
                   labels, X_seq, y_seq, split, predict_calls, log>>

\* cell 73b60acc: X_seq, y_seq (to_categorical raises on an empty list)
ToArrays ==
    /\ pc = "cell_arrays"
    /\ X_seq' = Bound(sequences)
    /\ log' = LogOp(log, 4)
    /\ IF labels = <<>>
       THEN /\ pc' = "error"
            /\ UNCHANGED y_seq
       ELSE /\ y_seq' = Bound(to_categorical(labels))
            /\ pc' = "cell_split"
    /\ UNCHANGED <<label, idx, total_frames, seeks, faces, sequences,
                   labels, split, predict_calls>>

\* cell 1b454b16: train_test_split
Split ==
    /\ pc = "cell_split"
    /\ log' = LogOp(log, 4)
    /\ LET r == train_test_split(y_seq[1])
       IN IF r.ok
          THEN /\ split' = Bound(r)
               /\ pc' = "cell_model"
          ELSE /\ pc' = "error"
               /\ UNCHANGED split
    /\ UNCHANGED <<label, idx, total_frames, seeks, faces, sequences,
                   labels, X_seq, y_seq, predict_calls>>

\* cell d4601478: define and compile the model
DefineModel ==
    /\ pc = "cell_model"
    /\ pc' = "cell_fit"
    /\ log' = LogOp(log, 5)
    /\ UNCHANGED <<label, idx, total_frames, seeks, faces, sequences,
                   labels, X_seq, y_seq, split, predict_calls>>

\* cell 3d07f64f: model.fit; the targets must have as many columns as the
\* Dense(2) output
Fit ==
    /\ pc = "cell_fit"
    /\ log' = LogOp(log, 5)
    /\ pc' = IF \A i \in 1..Len(y_seq[1]) : Len(y_seq[1][i]) = NUM_OUTPUTS
             THEN "cell_eval" ELSE "error"
    /\ UNCHANGED <<label, idx, total_frames, seeks, faces, sequences,
                   labels, X_seq, y_seq, split, predict_calls>>

\* cell ca03677e: predict on the test set and report
Evaluate ==
    /\ pc = "cell_eval"
    /\ pc' = "done"
    /\ log' = LogOp(log, 5)
    /\ UNCHANGED <<label, idx, total_frames, seeks, faces, sequences,
                   labels, X_seq, y_seq, split, predict_calls>>

Next ==
    \/ Unzip
    \/ DefineSampler
    \/ BuildFeatureExtractor
    \/ StartLoop
    \/ ForLabel
    \/ ProcessVideo
    \/ ForVideoEnd
    \/ ForLabelEnd
    \/ ToArrays
    \/ Split
    \/ DefineModel
    \/ Fit
    \/ Evaluate

Spec == Init /\ [][Next]_vars

-----------------------------------------------------------------------------
(* extract_faces_from_video, one frame at a time, for one video *)

InitSampler ==
    /\ pc = "cap_open"
    /\ total_frames \in 0..MaxTotalFrames
    /\ label = 0
    /\ idx = 0
    /\ seeks = <<>>
    /\ faces = <<>>
    /\ sequences = <<>>
    /\ labels = <<>>
    /\ X_seq = Unset
    /\ y_seq = Unset
    /\ split = Unset
    /\ predict_calls = 0
    /\ log = <<>>

\* faces = [], cap = cv2.VideoCapture(video_path), total_frames = ...
OpenCapture ==
    /\ pc = "cap_open"
    /\ faces' = <<>>
    /\ seeks' = <<>>
    /\ pc' = "for_frame"
    /\ UNCHANGED <<label, idx, total_frames, sequences, labels, X_seq, y_seq,
                   split, predict_calls, log>>

\* one iteration of the for loop: seek, read, detect, crop, append.  A frame
\* read twice gives the same result twice.
SeekFrame ==
    /\ pc = "for_frame"
    /\ Len(seeks) < FRAMES_PER_VIDEO
    /\ LET i == SamplePositions(total_frames)[Len(seeks) + 1]
           video == [folder |-> classes[label + 1], total |-> total_frames]
           again == seeks # <<>> /\ seeks[Len(seeks)] = i
           before == faces # <<>> /\ faces[Len(faces)].frame = i
       IN /\ seeks' = Append(seeks, i)
          /\ \E hasFace \in BOOLEAN :
               /\ again => (hasFace = before)
               /\ faces' = IF hasFace THEN Append(faces, Face(video, i))
                           ELSE faces
    /\ UNCHANGED <<pc, label, idx, total_frames, sequences, labels, X_seq,
                   y_seq, split, predict_calls, log>>

\* cap.release(); return faces
ReleaseCapture ==
    /\ pc = "for_frame"
    /\ Len(seeks) = FRAMES_PER_VIDEO
    /\ pc' = "returned"
    /\ UNCHANGED <<label, idx, total_frames, seeks, faces, sequences, labels,
                   X_seq, y_seq, split, predict_calls, log>>

NextSampler ==
    \/ OpenCapture
    \/ SeekFrame
    \/ ReleaseCapture

SpecSampler == InitSampler /\ [][NextSampler]_vars

-----------------------------------------------------------------------------
(* Properties *)

\* a ProcessVideo step: one iteration of the inner loop
VideoStep == pc = "for_video" /\ idx' = idx + 1

\* C1: a video is skipped exactly when extract_faces_from_video returned
\* fewer than FRAMES_PER_VIDEO faces: then nothing is appended to sequences or
\* labels, the feature extractor is not invoked and the loop goes on; every
\* other video appends exactly one entry to sequences and one to labels.
C1_SkipExactlyWhenTooFewFaces ==
    [][VideoStep =>
         /\ pc' = "for_video"
         /\ IF Len(faces') < FRAMES_PER_VIDEO
            THEN /\ sequences' = sequences
                 /\ labels' = labels
                 /\ predict_calls' = predict_calls
            ELSE /\ Len(sequences') = Len(sequences) + 1
                 /\ Len(labels') = Len(labels) + 1
                 /\ \A i \in 1..Len(sequences) : sequences'[i] = sequences[i]
                 /\ \A i \in 1..Len(labels) : labels'[i] = labels[i]]_vars

\* a folder in which a video was accepted and a later one, with four faces,
\* was skipped
C1_Witness ==
    /\ pc = "for_video"
    /\ idx = 2
    /\ Len(faces) = FRAMES_PER_VIDEO - 1
    /\ Len(sequences) = 1
    /\ predict_calls = FRAMES_PER_VIDEO

\* C2: every element of sequences holds exactly FRAMES_PER_VIDEO feature
\* vectors of dimension 1280, the k-th one computed from the face of the k-th
\* sampled frame (the floor of (k-1)*(total_frames-1)/4) of one video.
C2_FiveFeaturesPerVideo ==
    \A i \in 1..Len(sequences) :
        /\ Len(sequences[i]) = FRAMES_PER_VIDEO
        /\ \A k \in 1..Len(sequences[i]) :
             LET f == sequences[i][k]
             IN /\ f.dim = FEATURE_DIM
                /\ f.face.video = sequences[i][1].face.video
                /\ (k - 1) * (f.face.video.total - 1) - 4 * f.face.frame \in 0..3

\* the loop has finished with videos of both folders accepted, some of them
\* with MaxFrames frames, and the last one skipped
C2_Witness ==
    /\ pc = "cell_arrays"
    /\ Len(sequences) >= 2
    /\ \E i \in 1..Len(sequences) : sequences[i][1].face.video.total = MaxFrames
    /\ sequences[1][1].face.video.folder # sequences[Len(sequences)][1].face.video.folder
    /\ Len(faces) < FRAMES_PER_VIDEO

\* C3: len(sequences) = len(labels), and labels[i] is 0 when the video behind
\* sequences[i] came from the 'real' folder and 1 when from the 'fake' folder.
C3_LabelsMatchFolders ==
    /\ Len(sequences) = Len(labels)
    /\ \A i \in 1..Len(sequences) :
         \A k \in 1..Len(sequences[i]) :
            /\ sequences[i][k].face.video.folder \in {"real", "fake"}
            /\ labels[i] = IF sequences[i][k].face.video.folder = "real"
                           THEN 0 ELSE 1

\* in the middle of the fake folder, with a real and a fake video accepted
C3_Witness ==
    /\ pc = "for_video"
    /\ label = 1
    /\ labels = <<0, 1>>
    /\ Len(sequences) = 2

\* C4 as stated: the five stages run strictly one after the other, so the
\* stages of the operations performed never go back or repeat.
C4_StagesStrictlyInOrder ==
    \A i \in 1..Len(log) : \A j \in 1..Len(log) : i < j => log[i] < log[j]

\* C4 as amended: extraction (1) comes first and once; sampling (2) and
\* embedding (3) alternate video by video, an embedding always right after
\* the sampling of its video; assembly and split (4) start only after the
\* last video, and training and evaluation (5) only after them, each once.
C4_StagesInterleavedPerVideo ==
    \A i \in 1..Len(log) :
        /\ log[i] \in 1..5
        /\ (log[i] = 1) <=> (i = 1)
        /\ log[i] = 2 => i > 1 /\ log[i - 1] \in {1, 3}
        /\ log[i] = 3 => i > 1 /\ log[i - 1] = 2
        /\ log[i] = 4 => \A j \in 1..(i - 1) : log[j] \in {1, 2, 3}
        /\ log[i] = 5 => i = Len(log) /\ i > 1 /\ log[i - 1] = 4

\* a complete run in which two videos were embedded and one more sampled
C4_Witness ==
    /\ pc = "done"
    /\ Len(log) >= 7
    /\ predict_calls = 2 * FRAMES_PER_VIDEO

\* C5: for total_frames >= 1 the k-th position sought (k = 0..4) is
\* k*(total_frames-1)/4 truncated; the positions lie in 0..total_frames-1,
\* never decrease, start at 0, end at total_frames-1 and are five, and two
\* gaps between consecutive positions differ by at most 1.
C5_EvenlySpacedPositions ==
    total_frames >= 1 =>
        /\ Len(seeks) <= FRAMES_PER_VIDEO
        /\ pc = "returned" => Len(seeks) = FRAMES_PER_VIDEO
        /\ \A k \in 1..Len(seeks) :
             /\ 4 * seeks[k] <= (k - 1) * (total_frames - 1)
             /\ (k - 1) * (total_frames - 1) < 4 * seeks[k] + 4
             /\ seeks[k] \in 0..(total_frames - 1)
             /\ k > 1 => seeks[k - 1] <= seeks[k]
             /\ k = 1 => seeks[k] = 0
             /\ k = FRAMES_PER_VIDEO => seeks[k] = total_frames - 1
        /\ \A j \in 2..Len(seeks) : \A k \in 2..Len(seeks) :
             (seeks[j] - seeks[j - 1]) - (seeks[k] - seeks[k - 1]) \in -1..1

\* a call that returned for a video whose gaps are not all equal
C5_Witness ==
    /\ pc = "returned"
    /\ total_frames >= FRAMES_PER_VIDEO
    /\ \E k \in 2..(Len(seeks) - 1) :
         seeks[k] - seeks[k - 1] # seeks[k + 1] - seeks[k]

\* C6: the five faces of an accepted video come from five different, valid
\* frames of the video (stated for the videos that have a frame at all).
C6_FiveDistinctFrames ==
    \A i \in 1..Len(sequences) :
        LET total == sequences[i][1].face.video.total
            frames == {sequences[i][k].face.frame : k \in 1..Len(sequences[i])}
        IN total >= 1 =>
              /\ Cardinality(frames) = FRAMES_PER_VIDEO
              /\ frames \subseteq 0..(total - 1)

\* C7: once y_seq exists it has one row per accepted video, every row has
\* NUM_OUTPUTS columns, and row i has its only 1 in column labels[i].
C7_OneHotTwoColumns ==
    y_seq # Unset =>
        /\ Len(y_seq[1]) = Len(labels)
        /\ \A i \in 1..Len(y_seq[1]) :
             /\ Len(y_seq[1][i]) = NUM_OUTPUTS
             /\ \A j \in 1..Len(y_seq[1][i]) :
                  (y_seq[1][i][j] = 1) <=> (j - 1 = labels[i])

====
